---- MODULE Spec2Model ----
(***************************************************************************)
(* State-machine model of src/game.js (Flappy Bird, HTML5 canvas).         *)
(*                                                                         *)
(* Units.  Horizontal quantities (pipe.x, bird.x, WIDTH, PIPE_WIDTH) are   *)
(* whole pixels.  Vertical quantities (bird.y, bird.vy, pipe.top,          *)
(* pipe.bottom, BASE_Y) are kept in quarter pixels (Scale = 4), because    *)
(* GRAVITY = 0.25 and JUMP = -4.5 are exact multiples of 1/4 and every     *)
(* value the code computes from them is an exactly representable double.   *)
(* bird.rot is kept in units of 1/(10*Scale*RotUnit) radian.               *)
(***************************************************************************)
EXTENDS Integers, Naturals, Sequences, FiniteSets, TLC

\* ------------------------------------------------------------------ bounds
\* Ticks are modelled while the frame counter is below MaxFrame.
MaxFrame == 600
\* The player may flap during play only on frames that are a multiple of
\* FlapPeriod, and only while the frame counter is below MaxFlapFrame; the
\* frames from MaxFlapFrame to MaxFrame leave every bird the time to fall.
FlapPeriod == 10
MaxFlapFrame == 460
\* An ended game is ticked only until the frame counter reaches the next
\* multiple of OverTicks.
OverTicks == 4
\* Math.random() is sampled on a grid: gap tops 40, 40+TopStep, ... < 260.
TopStep == 73
\* The player restarts an ended game only when at most MaxPendingDie of the
\* deferred 'die' cues are still pending.
MaxPendingDie == 1
\* Under the fair specification the player flaps during play only while the
\* frame counter is below MaxFairFlapFrame.
MaxFairFlapFrame == 200
\* While assets are still loading, ticks are modelled while the frame counter
\* is below MaxLoadFrame.
MaxLoadFrame == 48

\* --------------------------------------------------------------- constants
Scale == 4
WIDTH == 288
HEIGHT == 512
GROUND_HEIGHT == 112
GRAVITY == 1
JUMP == -18
PIPE_GAP == 100
PIPE_DISTANCE == 140
PIPE_WIDTH == 52
BASE_Y == HEIGHT - GROUND_HEIGHT
BIRD_X == 60
BIRD_RADIUS == 12
PIPE_SPEED == 2
RotUnit == 1000
MAX_ROT == 31416
\* spriteNames has 8 keys naming 6 + 3 + 10 images; audioNames has 5 keys
\* naming 5 sounds (lines 24-47).
SPRITE_KEYS == 8
AUDIO_KEYS == 5
NUM_IMAGES == 19
NUM_SOUNDS == 5

Splash == 0
Game == 1
Over == 2
GameStates == {Splash, Game, Over}

\* loaded is loadAssets' counter, loops the number of animation-frame loops
\* started by the load callback, dieTimers the number of pending
\* setTimeout(() => playAudio('die'), 300) callbacks and lastAudio the name of
\* the sound playAudio restarted last.
VARIABLES gameState, score, pipes, bird, baseX, frame, pipeSpawnTimer,
          loaded, loops, dieTimers, lastAudio

vars == <<gameState, score, pipes, bird, baseX, frame, pipeSpawnTimer,
          loaded, loops, dieTimers, lastAudio>>

\* The game state proper, without the loader, the timers and the audio.
core == <<gameState, score, pipes, bird, baseX, frame, pipeSpawnTimer>>

\* A let-declared variable that has not been assigned yet (line 94).
Undefined == "undefined"

Min(a, b) == IF a < b THEN a ELSE b

\* JavaScript's % takes the sign of the dividend.
JsRem(a, n) == IF a >= 0 THEN a % n ELSE -((-a) % n)

\* ---------------------------------------------------------------- resetGame
NewBird ==
  [x |-> BIRD_X, y |-> (HEIGHT * Scale) \div 2, vy |-> 0,
   frame |-> 0, rot |-> 0, radius |-> BIRD_RADIUS]

\* Fault variant: resetGame forgets pipeSpawnTimer.
ResetGame_KeepsTimer(state, b) ==
  /\ gameState' = state
  /\ score' = 0
  /\ pipes' = <<>>
  /\ bird' = b
  /\ baseX' = 0
  /\ frame' = 0
  /\ pipeSpawnTimer' = pipeSpawnTimer

\* resetGame() followed by the caller's assignments to gameState and bird.vy:
\* b is the fresh bird, with the caller's velocity already applied.
ResetGame(state, b) ==
  /\ gameState' = state
  /\ score' = 0
  /\ pipes' = <<>>
  /\ bird' = b
  /\ baseX' = 0
  /\ frame' = 0
  /\ pipeSpawnTimer' = 0

\* ---------------------------------------------------------------- spawnPipe
\* Math.floor(Math.random() * (HEIGHT - GROUND_HEIGHT - PIPE_GAP - 80)) + 40
\* Fault variant: the 80-pixel margin is not subtracted.
TopRange_NoMargin == 40 .. (HEIGHT - GROUND_HEIGHT - PIPE_GAP) + 40 - 1

TopRange == 40 .. (HEIGHT - GROUND_HEIGHT - PIPE_GAP - 80) + 40 - 1

TopChoices == {t \in TopRange : (t - 40) % TopStep = 0}

NewPipe(topY) ==
  [x |-> WIDTH, top |-> topY, bottom |-> topY + PIPE_GAP, passed |-> FALSE]

\* ------------------------------------------------------------------- update
\* Fault variant: gravity is subtracted.
Physics_GravityUp(b) ==
  LET vy == b.vy - GRAVITY
      y  == b.y + vy
  IN [b EXCEPT !.vy = vy,
               !.y = y,
               !.frame = IF vy >= JUMP THEN 1 ELSE IF vy < 0 THEN 0 ELSE 2,
               !.rot = Min(MAX_ROT, vy * RotUnit)]

\* Fault variant: the position is advanced by the velocity before gravity.
Physics_OldVelocity(b) ==
  LET vy == b.vy + GRAVITY
      y  == b.y + b.vy
  IN [b EXCEPT !.vy = vy,
               !.y = y,
               !.frame = IF vy >= JUMP THEN 1 ELSE IF vy < 0 THEN 0 ELSE 2,
               !.rot = Min(MAX_ROT, vy * RotUnit)]

\* Bird physics, animation frame and rotation (lines 208-215).
Physics(b) ==
  LET vy == b.vy + GRAVITY
      y  == b.y + vy
  IN [b EXCEPT !.vy = vy,
               !.y = y,
               !.frame = IF vy >= JUMP THEN 1 ELSE IF vy < 0 THEN 0 ELSE 2,
               !.rot = Min(MAX_ROT, vy * RotUnit)]

\* pipeSpawnTimer++ and the threshold test (lines 218-219).
SpawnDue(timer) == timer + 1 > PIPE_DISTANCE

\* Fault variant: the pipes move right.
MovePipes_Right(ps) == [i \in 1..Len(ps) |-> [ps[i] EXCEPT !.x = ps[i].x + PIPE_SPEED]]

\* pipes.forEach(pipe => { pipe.x -= 2; }) (line 223).
MovePipes(ps) == [i \in 1..Len(ps) |-> [ps[i] EXCEPT !.x = ps[i].x - PIPE_SPEED]]

\* Fault variant: the front pipe is retired while its edge is still at 0.
RetirePipes_AtEdge(ps) ==
  IF Len(ps) > 0 /\ ps[1].x <= -PIPE_WIDTH THEN Tail(ps) ELSE ps

\* if (pipes.length && pipes[0].x < -PIPE_WIDTH) pipes.shift() (line 225).
RetirePipes(ps) ==
  IF Len(ps) > 0 /\ ps[1].x < -PIPE_WIDTH THEN Tail(ps) ELSE ps

\* Fault variant: only the upper pipe is tested.
HitsPipe_UpperOnly(b, p) ==
  /\ b.x + b.radius > p.x
  /\ b.x - b.radius < p.x + PIPE_WIDTH
  /\ b.y - b.radius * Scale < p.top * Scale

\* The horizontal and vertical overlap tests of lines 230 and 232.
HitsPipe(b, p) ==
  /\ b.x + b.radius > p.x
  /\ b.x - b.radius < p.x + PIPE_WIDTH
  /\ \/ b.y - b.radius * Scale < p.top * Scale
     \/ b.y + b.radius * Scale > p.bottom * Scale

\* Fault variant: a pipe counts as soon as the bird is level with its edge.
Passes_AtEdge(b, p) == ~p.passed /\ b.x >= p.x + PIPE_WIDTH

\* Fault variant: the passed flag is not consulted.
Passes_NoFlag(b, p) == b.x > p.x + PIPE_WIDTH

\* The score test of line 239.
Passes(b, p) == ~p.passed /\ b.x > p.x + PIPE_WIDTH

\* The ground test of line 246.
HitsGround(b) == b.y + b.radius * Scale > BASE_Y * Scale

\* pipe.passed = true for every pipe the bird has passed (lines 239-243).
MarkPassed(b, ps) ==
  [i \in 1..Len(ps) |-> IF Passes(b, ps[i]) THEN [ps[i] EXCEPT !.passed = TRUE]
                                            ELSE ps[i]]

\* score++ once per pipe that becomes passed (line 240).
Gained(b, ps) == Cardinality({i \in 1..Len(ps) : Passes(b, ps[i])})

\* Fault variant: the clamp forgets the radius.
ClampToGround_NoRadius(b) ==
  IF b.y + b.radius * Scale > BASE_Y * Scale
    THEN [b EXCEPT !.y = BASE_Y * Scale] ELSE b

\* bird.y = BASE_Y - bird.radius (line 247).
ClampToGround(b) ==
  IF HitsGround(b) THEN [b EXCEPT !.y = (BASE_Y - b.radius) * Scale] ELSE b

\* baseX = (baseX - 2) % WIDTH (line 255).
ScrollBase(bx) == JsRem(bx - 2, WIDTH)

\* The sound restarted last by the pipe loop (lines 228-244): for each pipe
\* in turn 'hit' on a collision, then 'point' on a pass; a is the sound
\* restarted last before the loop.
RECURSIVE AudioAfterPipes(_, _, _)
AudioAfterPipes(b, ps, a) ==
  IF ps = <<>> THEN a
  ELSE LET a1 == IF HitsPipe(b, Head(ps)) THEN "hit" ELSE a
           a2 == IF Passes(b, Head(ps)) THEN "point" ELSE a1
       IN AudioAfterPipes(b, Tail(ps), a2)

\* The number of setTimeout calls of one update(): one per pipe hit (line
\* 235) and one for the ground (line 250).
DieScheduled(b, ps) ==
  Cardinality({i \in 1..Len(ps) : HitsPipe(b, ps[i])})
    + (IF HitsGround(b) THEN 1 ELSE 0)

\* Fault variant: a collision plays its sounds but does not end the game.
UpdateGame_NoGameOver(topY) ==
  LET b  == Physics(bird)
      sp == SpawnDue(pipeSpawnTimer)
      p0 == IF sp THEN Append(pipes, NewPipe(topY)) ELSE pipes
      p1 == RetirePipes(MovePipes(p0))
      a   == AudioAfterPipes(b, p1, lastAudio)
  IN /\ pipeSpawnTimer' = IF sp THEN 0 ELSE pipeSpawnTimer + 1
     /\ dieTimers' = dieTimers
     /\ lastAudio' = IF HitsGround(b) THEN "hit" ELSE a
     /\ pipes' = MarkPassed(b, p1)
     /\ score' = score + Gained(b, p1)
     /\ bird' = ClampToGround(b)
     /\ gameState' = Game

\* One call of update() while gameState === STATE.Game (lines 206-252).
UpdateGame(topY) ==
  LET b  == Physics(bird)
      sp == SpawnDue(pipeSpawnTimer)
      p0 == IF sp THEN Append(pipes, NewPipe(topY)) ELSE pipes
      p1 == RetirePipes(MovePipes(p0))
      hit == (\E i \in 1..Len(p1) : HitsPipe(b, p1[i])) \/ HitsGround(b)
      a   == AudioAfterPipes(b, p1, lastAudio)
  IN /\ pipeSpawnTimer' = IF sp THEN 0 ELSE pipeSpawnTimer + 1
     /\ dieTimers' = dieTimers + DieScheduled(b, p1)
     /\ lastAudio' = IF HitsGround(b) THEN "hit" ELSE a
     /\ pipes' = MarkPassed(b, p1)
     /\ score' = score + Gained(b, p1)
     /\ bird' = ClampToGround(b)
     /\ gameState' = IF hit THEN Over ELSE Game

\* Fault variant: the frame counter is advanced only during play.
Tick_FrameInGame ==
  /\ loops > 0
  /\ frame < MaxFrame
  /\ gameState = Over => frame % OverTicks /= 0
  /\ frame' = IF gameState = Game THEN frame + 1 ELSE frame
  /\ baseX' = ScrollBase(baseX)
  /\ UNCHANGED <<loaded, loops>>
  /\ IF gameState = Game
       THEN IF SpawnDue(pipeSpawnTimer)
              THEN \E topY \in TopChoices : UpdateGame(topY)
              ELSE UpdateGame(40)
       ELSE UNCHANGED <<gameState, score, pipes, bird, pipeSpawnTimer,
                        dieTimers, lastAudio>>

\* Fault variant: the game logic also runs after the game has ended.
Tick_RunsWhenOver ==
  /\ loops > 0
  /\ frame < MaxFrame
  /\ gameState = Over => frame % OverTicks /= 0
  /\ frame' = frame + 1
  /\ baseX' = ScrollBase(baseX)
  /\ UNCHANGED <<loaded, loops>>
  /\ IF gameState /= Splash
       THEN IF SpawnDue(pipeSpawnTimer)
              THEN \E topY \in TopChoices : UpdateGame(topY)
              ELSE UpdateGame(40)
       ELSE UNCHANGED <<gameState, score, pipes, bird, pipeSpawnTimer,
                        dieTimers, lastAudio>>

\* update() (lines 204-256), called once per animation frame by loop().
Tick ==
  /\ loops > 0
  /\ frame < MaxFrame
  /\ gameState = Over => frame % OverTicks /= 0
  /\ frame' = frame + 1
  /\ baseX' = ScrollBase(baseX)
  /\ UNCHANGED <<loaded, loops>>
  /\ IF gameState = Game
       THEN IF SpawnDue(pipeSpawnTimer)
              THEN \E topY \in TopChoices : UpdateGame(topY)
              ELSE UpdateGame(40)
       ELSE UNCHANGED <<gameState, score, pipes, bird, pipeSpawnTimer,
                        dieTimers, lastAudio>>

\* --------------------------------------------------------------------- flap
FlapSplash ==
  /\ gameState = Splash
  /\ ResetGame(Game, [NewBird EXCEPT !.vy = JUMP])
  /\ lastAudio' = "wing"
  /\ UNCHANGED <<loaded, loops, dieTimers>>

\* Fault variant: the impulse is added to the velocity.
FlapGame_Adds ==
  /\ gameState = Game
  /\ frame % FlapPeriod = 0
  /\ frame < MaxFlapFrame
  /\ bird' = [bird EXCEPT !.vy = bird.vy + JUMP]
  /\ lastAudio' = "wing"
  /\ UNCHANGED <<gameState, score, pipes, baseX, frame, pipeSpawnTimer>>
  /\ UNCHANGED <<loaded, loops, dieTimers>>

FlapGame ==
  /\ gameState = Game
  /\ frame % FlapPeriod = 0
  /\ frame < MaxFlapFrame
  /\ bird' = [bird EXCEPT !.vy = JUMP]
  /\ lastAudio' = "wing"
  /\ UNCHANGED <<gameState, score, pipes, baseX, frame, pipeSpawnTimer>>
  /\ UNCHANGED <<loaded, loops, dieTimers>>

\* Fault variant: a flap on the game-over screen starts a new game at once.
FlapOver_Restarts ==
  /\ gameState = Over
  /\ dieTimers <= MaxPendingDie
  /\ ResetGame(Game, NewBird)
  /\ lastAudio' = "swoosh"
  /\ UNCHANGED <<loaded, loops, dieTimers>>

FlapOver ==
  /\ gameState = Over
  /\ dieTimers <= MaxPendingDie
  /\ ResetGame(Splash, NewBird)
  /\ lastAudio' = "swoosh"
  /\ UNCHANGED <<loaded, loops, dieTimers>>

Flap == FlapSplash \/ FlapGame \/ FlapOver

\* ------------------------------------------------------------ deferred cue
\* Fault variant: the deferred callback ends the game itself.
DieFires_EndsGame ==
  /\ dieTimers > 0
  /\ dieTimers' = dieTimers - 1
  /\ lastAudio' = "die"
  /\ gameState' = Over
  /\ UNCHANGED <<score, pipes, bird, baseX, frame, pipeSpawnTimer>>
  /\ UNCHANGED <<loaded, loops>>

\* A pending () => playAudio('die') fires (lines 235, 250 and 196-201).
DieFires ==
  /\ dieTimers > 0
  /\ dieTimers' = dieTimers - 1
  /\ lastAudio' = "die"
  /\ UNCHANGED <<gameState, score, pipes, bird, baseX, frame, pipeSpawnTimer>>
  /\ UNCHANGED <<loaded, loops>>

\* --------------------------------------------------------------- loadAssets
\* const total = Object.keys(spriteNames).length
\*             + Object.keys(audioNames).length (line 58).
LoadTotal == SPRITE_KEYS + AUDIO_KEYS

\* One onload / oncanplaythrough handler is installed per Image and Audio
\* object created (lines 66-68, 73-75, 81-82).
NumAssets == NUM_IMAGES + NUM_SOUNDS

\* One asset reports ready: loaded++; if (loaded === total) callback(), and
\* the callback is resetGame(); loop() (lines 303-306).  The handlers are
\* the same closure for every asset, so only their number matters.
AssetLoaded ==
  /\ loaded < NumAssets
  /\ loaded' = loaded + 1
  /\ IF loaded + 1 = LoadTotal
       THEN /\ ResetGame(gameState, NewBird)
            /\ loops' = loops + 1
       ELSE UNCHANGED <<gameState, score, pipes, bird, baseX, frame,
                        pipeSpawnTimer, loops>>
  /\ UNCHANGED <<dieTimers, lastAudio>>

\* ------------------------------------------------------------ specification
\* The state right after the load callback (lines 303-306) has run
\* resetGame() and started the loop.  The input listeners (lines 296-300) are
\* registered before the assets finish loading, so a flap may already have
\* moved gameState to Game; the callback's resetGame() leaves gameState alone.
Init ==
  /\ gameState \in {Splash, Game}
  /\ score = 0
  /\ pipes = <<>>
  /\ bird = NewBird
  /\ baseX = 0
  /\ frame = 0
  /\ pipeSpawnTimer = 0
  /\ loaded = LoadTotal
  /\ loops = 1
  /\ dieTimers = 0
  /\ lastAudio = IF gameState = Game THEN "wing" ELSE "none"

\* The assets that report ready after the callback only increment loaded;
\* Spec leaves them to SpecLoad.
Next == Tick \/ Flap \/ DieFires

Spec == Init /\ [][Next]_vars

\* The state when the script has run to its end (lines 87-94, 296-306): no
\* asset has reported ready, resetGame has not run.
InitLoad ==
  /\ gameState = Splash
  /\ score = 0
  /\ pipes = <<>>
  /\ bird = Undefined
  /\ baseX = Undefined
  /\ frame = Undefined
  /\ pipeSpawnTimer = Undefined
  /\ loaded = 0
  /\ loops = 0
  /\ dieTimers = 0
  /\ lastAudio = "none"

\* update() while the frame counter is below MaxLoadFrame.
LoadTick == loops > 0 /\ frame < MaxLoadFrame /\ Tick

NextLoad == AssetLoaded \/ LoadTick \/ Flap \/ DieFires

SpecLoad == InitLoad /\ [][NextLoad]_vars

\* loop() re-arms itself with requestAnimationFrame on every frame (lines
\* 270-274), so a tick that stays possible is eventually taken.
FairFlap == Flap /\ (gameState = Game => frame < MaxFairFlapFrame)

NextFair == Tick \/ FairFlap \/ DieFires

SpecFair == Init /\ [][NextFair]_vars /\ WF_vars(Tick)

\* ================================================================== claims
\* A tick is the only step that increments the frame counter (line 205);
\* resetGame sets it to 0 and a flap during play leaves it alone.
IsTick == frame' = frame + 1

\* A deferred 'die' cue is the only step that lowers dieTimers.
IsDie == dieTimers' = dieTimers - 1

\* A flap is a step that changes the state without being a tick or a cue.
IsFlap == ~IsTick /\ ~IsDie /\ vars' /= vars

\* The bird's y after this tick's physics step, before any floor clamp.
PostY == bird.y + bird.vy + GRAVITY

FloorY == (BASE_Y - BIRD_RADIUS) * Scale

\* A bird at height y (quarter pixels) overlaps pipe p.
Overlaps(y, p) ==
  /\ BIRD_X + BIRD_RADIUS > p.x
  /\ BIRD_X - BIRD_RADIUS < p.x + PIPE_WIDTH
  /\ \/ y - BIRD_RADIUS * Scale < p.top * Scale
     \/ y + BIRD_RADIUS * Scale > p.bottom * Scale

BelowFloor(y) == y + BIRD_RADIUS * Scale > BASE_Y * Scale

\* The collision test applied to the moved pipes and the moved bird.
CollisionDetected ==
  \/ \E i \in DOMAIN pipes' : Overlaps(PostY, pipes'[i])
  \/ BelowFloor(PostY)

\* ---- C1
\* C1: the game state changes only along Splash -> Game (by a flap),
\* Game -> Over (by a tick that detects a collision) and Over -> Splash (by a
\* flap); a flap from Splash or Over always takes its edge, a flap during
\* play and a tick outside play keep the state.
C1_Step ==
  /\ gameState' /= gameState =>
       \/ gameState = Splash /\ gameState' = Game /\ IsFlap
       \/ gameState = Game /\ gameState' = Over /\ IsTick /\ CollisionDetected
       \/ gameState = Over /\ gameState' = Splash /\ IsFlap
  /\ (IsFlap /\ gameState = Splash) => gameState' = Game
  /\ (IsFlap /\ gameState = Over) => gameState' = Splash
  /\ (IsFlap /\ gameState = Game) => gameState' = Game
  /\ (IsTick /\ gameState /= Game) => gameState' = gameState

C1_StateEdges == [][C1_Step]_vars

\* A game that ended by hitting a pipe after scoring.
C1_Witness ==
  /\ gameState = Over
  /\ score >= 1
  /\ \E i \in DOMAIN pipes : Overlaps(bird.y, pipes[i])

\* ---- C2
\* C2: a tick taken during play ends in Over exactly when the moved bird
\* overlaps a moved pipe or is below the floor; hence in every state with
\* gameState = Game the bird overlaps no pipe and is not below the floor.
C2_Step == (IsTick /\ gameState = Game) => (gameState' = Over <=> CollisionDetected)

C2_PlayingIsClear ==
  gameState = Game =>
    /\ \A i \in DOMAIN pipes : ~Overlaps(bird.y, pipes[i])
    /\ ~BelowFloor(bird.y)

C2_CollisionIff == [][C2_Step]_vars /\ []C2_PlayingIsClear

\* A game that ended on a pipe, above the floor, with no score.
C2_Witness ==
  /\ gameState = Over
  /\ score = 0
  /\ bird.y < FloorY
  /\ \E i \in DOMAIN pipes : Overlaps(bird.y, pipes[i])

\* ---- C3
\* C3: a pipe's passed flag never goes back to false, score grows by exactly
\* the number of pipes whose flag turns true in the step, a reset sets it
\* to 0, and score is a natural number.  Pipes are identified across a step
\* by their x, which a tick taken during play lowers by PIPE_SPEED.
C3_Shift == IF IsTick /\ gameState = Game THEN PIPE_SPEED ELSE 0

C3_WasPassed(j) ==
  \E i \in DOMAIN pipes : pipes[i].x - C3_Shift = pipes'[j].x /\ pipes[i].passed

C3_Newly == {j \in DOMAIN pipes' : pipes'[j].passed /\ ~C3_WasPassed(j)}

C3_KeepsPassed ==
  \A i \in DOMAIN pipes : \A j \in DOMAIN pipes' :
    (pipes[i].passed /\ pipes'[j].x = pipes[i].x - C3_Shift) => pipes'[j].passed

C3_Step ==
  IF IsFlap /\ gameState /= Game
    THEN score' = 0
    ELSE /\ score' = score + Cardinality(C3_Newly)
         /\ Cardinality(C3_Newly) <= 1
         /\ C3_KeepsPassed

C3_ScoreOncePerPipe == [][C3_Step]_vars /\ [](score \in Nat)

\* Two pipes have been passed in one play-through.
C3_Witness == score = 2 /\ gameState = Game

\* ---- C4
\* C4: a tick during play that leaves the bird below the floor after the
\* physics step ends in Over with bird.y exactly BASE_Y - radius.
C4_Step ==
  (IsTick /\ gameState = Game /\ BelowFloor(PostY)) =>
    (gameState' = Over /\ bird'.y = FloorY)

C4_FloorClamp == [][C4_Step]_vars

\* The bird lies on the floor inside a pipe's column: both collisions were
\* possible in the tick that ended the game.
C4_Witness ==
  /\ gameState = Over
  /\ bird.y = FloorY
  /\ bird.vy > GRAVITY
  /\ \E i \in DOMAIN pipes : Overlaps(bird.y, pipes[i])

\* ---- C5
\* C5: a flap from Over yields the reset state in Splash; a flap from Splash
\* yields the reset state in Game with the jump impulse applied on top of
\* it; the state right after load completion is a reset state too.
C5_ResetValues ==
  /\ score' = 0
  /\ pipes' = <<>>
  /\ pipeSpawnTimer' = 0
  /\ bird'.y = (HEIGHT * Scale) \div 2

C5_Step ==
  /\ (IsFlap /\ gameState = Over) => (C5_ResetValues /\ bird'.vy = 0)
  /\ (IsFlap /\ gameState = Splash) => (C5_ResetValues /\ bird'.vy = JUMP)

C5_AfterLoad ==
  /\ score = 0
  /\ pipes = <<>>
  /\ pipeSpawnTimer = 0
  /\ bird.y = (HEIGHT * Scale) \div 2
  /\ bird.vy = 0

C5_ResetState == C5_AfterLoad /\ [][C5_Step]_vars

\* The state right after a flap from Splash.
C5_Witness ==
  /\ gameState = Game
  /\ frame = 0
  /\ bird.vy = JUMP
  /\ bird.y = (HEIGHT * Scale) \div 2
  /\ pipes = <<>>

\* ---- C6
\* C6: on every tick during play bird.vy grows by exactly GRAVITY and bird.y
\* advances by the new velocity, the floor clamp apart.
C6_Step ==
  (IsTick /\ gameState = Game) =>
    /\ bird'.vy = bird.vy + GRAVITY
    /\ bird'.y = IF BelowFloor(bird.y + bird'.vy) THEN FloorY
                                                  ELSE bird.y + bird'.vy

C6_Gravity == [][C6_Step]_vars

\* A colliding tick that was not a floor hit: the bird is falling, above the
\* floor, in an ended game.
C6_Witness ==
  /\ gameState = Over
  /\ bird.vy > 0
  /\ bird.y + bird.vy < FloorY

\* ---- C7
\* C7: a flap from Splash or during play leaves bird.vy = JUMP; during play
\* it changes nothing else.
C7_Step ==
  /\ (IsFlap /\ gameState \in {Splash, Game}) => bird'.vy = JUMP
  /\ (IsFlap /\ gameState = Game) =>
       /\ bird' = [bird EXCEPT !.vy = JUMP]
       /\ UNCHANGED <<gameState, score, pipes, pipeSpawnTimer, frame, baseX>>

C7_JumpImpulse == [][C7_Step]_vars

\* A flap during play with a pipe already passed.
C7_Witness ==
  /\ gameState = Game
  /\ bird.vy = JUMP
  /\ frame > 0
  /\ score >= 1

\* ---- C8
\* C8: the pipes are sorted by strictly ascending x, and the x of the front
\* pipe never increases in a step that does not retire it.
C8_Sorted == \A i \in 1..(Len(pipes) - 1) : pipes[i].x < pipes[i + 1].x

C8_FrontRetired ==
  IsTick /\ gameState = Game /\ pipes[1].x - PIPE_SPEED < -PIPE_WIDTH

C8_Step ==
  (pipes /= <<>> /\ pipes' /= <<>> /\ ~C8_FrontRetired) =>
    pipes'[1].x <= pipes[1].x

C8_SortedPipes == []C8_Sorted /\ [][C8_Step]_vars

\* Two pipes on screen, the front one already passed.
C8_Witness ==
  /\ Len(pipes) = 2
  /\ pipes[1].passed
  /\ pipes[1].x < BIRD_X

\* ---- C9
\* C9: a tick taken in Splash or Over changes only frame and baseX, and
\* every Splash state has score 0, no pipes and the fresh bird.
C9_Step ==
  (IsTick /\ gameState /= Game) =>
    /\ UNCHANGED <<gameState, score, pipes, bird, pipeSpawnTimer>>
    /\ baseX' = IF baseX - 2 = -WIDTH THEN 0 ELSE baseX - 2

C9_IdleIsFresh ==
  gameState = Splash =>
    /\ score = 0
    /\ pipes = <<>>
    /\ pipeSpawnTimer = 0
    /\ bird.y = (HEIGHT * Scale) \div 2
    /\ bird.vy = 0

C9_IdleTicks == [][C9_Step]_vars /\ []C9_IdleIsFresh

\* An ended game that has been ticked: during play frame and pipeSpawnTimer
\* advance together, here frame ran ahead.
C9_Witness ==
  /\ gameState = Over
  /\ score >= 1
  /\ frame % (PIPE_DISTANCE + 1) /= pipeSpawnTimer

\* ---- C10
\* C10: pipes spawn every PIPE_DISTANCE ticks of play: after PIPE_DISTANCE
\* ticks of a play-through the first pipe exists, consecutive pipes are
\* PIPE_DISTANCE * PIPE_SPEED apart, and pipeSpawnTimer is 0 after a spawn.
C10_FirstSpawn ==
  (gameState = Game /\ frame = PIPE_DISTANCE) => Len(pipes) >= 1

C10_Spacing ==
  \A i \in 1..(Len(pipes) - 1) :
    pipes[i + 1].x - pipes[i].x = PIPE_DISTANCE * PIPE_SPEED

C10_SpawnCadence == C10_FirstSpawn /\ C10_Spacing

\* ---- C11
\* C11: the load callback runs exactly once, only after every one of the
\* 19 images and 5 sounds has reported ready, and no tick runs before it.
C11_CallbackAtMostOnce == loops <= 1

C11_CallbackAfterAllAssets == loops >= 1 => loaded = NUM_IMAGES + NUM_SOUNDS

C11_CallbackWhenAllLoaded == loaded = NUM_IMAGES + NUM_SOUNDS => loops = 1

C11_NoTickBeforeCallback == (loops = 0 /\ gameState = Game) => frame = 0

C11_LoadGate ==
  /\ C11_CallbackAtMostOnce
  /\ C11_CallbackAfterAllAssets
  /\ C11_CallbackWhenAllLoaded
  /\ C11_NoTickBeforeCallback

\* ---- C12
\* C12 as stated: a pipe is scored exactly from the first tick of play at
\* which the bird's leading edge (bird.x + radius) is past the pipe's
\* trailing edge (pipe.x + PIPE_WIDTH).
C12_ScoredAtLeadingEdge ==
  \A i \in DOMAIN pipes :
    pipes[i].passed <=> BIRD_X + BIRD_RADIUS > pipes[i].x + PIPE_WIDTH

\* C12 as amended: a pipe is scored exactly from the first tick of play at
\* which the bird's centre (bird.x) is past the pipe's trailing edge, and at
\* no later tick.
C12_ScoredAtCentre ==
  \A i \in DOMAIN pipes :
    pipes[i].passed <=> BIRD_X > pipes[i].x + PIPE_WIDTH

\* The tick that scored a pipe: the pipe is on the first position past the
\* bird's centre.
C12_Witness ==
  /\ score >= 1
  /\ \E i \in DOMAIN pipes :
       pipes[i].passed /\ pipes[i].x + PIPE_WIDTH + PIPE_SPEED = BIRD_X

\* ---- C13
\* C13: a tick of play removes the front pipe exactly when its trailing edge
\* is left of the screen after the move (x + PIPE_WIDTH < 0); it removes
\* nothing else, every other pipe keeps its place in the order, and every
\* pipe has -PIPE_WIDTH <= x <= WIDTH.
C13_InRange ==
  \A i \in DOMAIN pipes : -PIPE_WIDTH <= pipes[i].x /\ pipes[i].x <= WIDTH

C13_FrontGone ==
  pipes /= <<>> /\ pipes[1].x - PIPE_SPEED + PIPE_WIDTH < 0

C13_Step ==
  (IsTick /\ gameState = Game) =>
    LET off == IF C13_FrontGone THEN 1 ELSE 0
    IN /\ Len(pipes') \in {Len(pipes) - off, Len(pipes) - off + 1}
       /\ \A i \in (1 + off)..Len(pipes) :
            /\ pipes'[i - off].x = pipes[i].x - PIPE_SPEED
            /\ pipes'[i - off].top = pipes[i].top
       /\ C13_FrontGone =>
            \A j \in DOMAIN pipes' : pipes'[j].x /= pipes[1].x - PIPE_SPEED

C13_RetireFront == []C13_InRange /\ [][C13_Step]_vars

\* The tick that retired the first pipe: the second pipe, spawned
\* PIPE_DISTANCE + 1 ticks after it, is alone and the first would be at
\* -PIPE_WIDTH - PIPE_SPEED.
C13_Witness ==
  /\ score >= 1
  /\ Len(pipes) = 1
  /\ ~pipes[1].passed
  /\ pipes[1].x - (PIPE_DISTANCE + 1) * PIPE_SPEED = -PIPE_WIDTH - PIPE_SPEED

\* ---- C14
\* C14: every pipe has bottom = top + PIPE_GAP with top an integer in
\* 40..259, so its gap lies below the top of the screen and above the
\* floor; top and bottom do not change while the pipe is in the sequence.
C14_GapInBounds ==
  \A i \in DOMAIN pipes :
    /\ pipes[i].bottom = pipes[i].top + PIPE_GAP
    /\ pipes[i].top \in 40..259
    /\ pipes[i].top > 0
    /\ pipes[i].bottom < BASE_Y

C14_Moved == IF IsTick /\ gameState = Game THEN PIPE_SPEED ELSE 0

C14_Step ==
  \A i \in DOMAIN pipes : \A j \in DOMAIN pipes' :
    pipes'[j].x = pipes[i].x - C14_Moved =>
      (pipes'[j].top = pipes[i].top /\ pipes'[j].bottom = pipes[i].bottom)

C14_GapFixed == []C14_GapInBounds /\ [][C14_Step]_vars

\* A pipe with the highest possible gap has crossed the whole screen.
C14_Witness ==
  \E i \in DOMAIN pipes :
    pipes[i].top = 40 /\ pipes[i].bottom = 140 /\ pipes[i].x < 0

\* ---- C15
\* C15: after a tick of play bird.frame is 0 (upflap) whenever the new
\* velocity is below 0, and is 1 only when the new velocity is not below 0.
C15_Step ==
  (IsTick /\ gameState = Game) =>
    /\ bird'.vy < 0 => bird'.frame = 0
    /\ bird'.frame = 1 => bird'.vy >= 0

C15_AnimationPhase == [][C15_Step]_vars

\* ---- C16
\* C16: bird.vy >= JUMP in every state, and after a tick of play
\* bird.vy >= JUMP + GRAVITY, so the tick took the first animation branch
\* (bird.frame = 1) and never the branches for vy < JUMP.
C16_AboveJump == bird.vy >= JUMP

C16_Step ==
  (IsTick /\ gameState = Game) =>
    (bird'.vy >= JUMP + GRAVITY /\ bird'.frame = 1)

C16_VelocityFloor == []C16_AboveJump /\ [][C16_Step]_vars

\* The tick right after a flap, the lowest velocity a tick can leave.
C16_Witness ==
  /\ gameState = Game
  /\ bird.vy = JUMP + GRAVITY
  /\ bird.frame = 1
  /\ pipes /= <<>>

\* ---- C17
\* C17 as stated: the frame counter never decreases.
C17_FrameNeverDecreases == [][frame' >= frame]_vars

\* A tick told apart without the frame counter: it is the step that
\* scrolls the ground and is not a reset (a reset changes gameState away
\* from Splash or Over, a tick leaves those states alone).
C17_IsTick == baseX' /= baseX /\ (gameState = Game \/ gameState' = gameState)

\* C17 as amended: the frame counter grows by exactly 1 on every tick in
\* every game state; any other step leaves it unchanged, except a reset (a
\* flap from Splash or Over), which sets it back to 0.
C17_Step ==
  IF C17_IsTick
    THEN frame' = frame + 1
    ELSE \/ frame' = frame
         \/ frame' = 0 /\ gameState \in {Splash, Over} /\ gameState' /= gameState

C17_FrameCounter == [][C17_Step]_vars

\* The splash screen right after a flap on the game-over screen reset a
\* game that had run.
C17_Witness ==
  /\ gameState = Splash
  /\ frame = 0
  /\ lastAudio = "swoosh"

\* ---- C18
\* C18: the colliding tick itself moves the game to Over and only schedules
\* the 'die' cue; whenever a pending cue fires, it changes none of
\* gameState, bird, pipes, score, pipeSpawnTimer, frame and baseX.
C18_Step ==
  /\ (IsTick /\ gameState = Game /\ CollisionDetected) =>
       (gameState' = Over /\ dieTimers' > dieTimers)
  /\ IsDie =>
       UNCHANGED <<gameState, score, pipes, bird, baseX, frame, pipeSpawnTimer>>

C18_DieCueIsInert == [][C18_Step]_vars

\* A cue left over from an earlier game has fired during a new play-through
\* in which a pipe is already on screen.
C18_Witness ==
  /\ gameState = Game
  /\ lastAudio = "die"
  /\ pipes /= <<>>
  /\ dieTimers = 0

\* ---- C19
\* C19: no collision is ever detected with a pipe whose passed flag is set,
\* the tick that sets the flag included; a pipe that is passed is no longer
\* horizontally overlapped by the bird.
C19_NoHitOnScored ==
  \A i \in DOMAIN pipes : pipes[i].passed => ~Overlaps(bird.y, pipes[i])

C19_ScoredIsBehind ==
  \A i \in DOMAIN pipes :
    pipes[i].passed =>
      ~(BIRD_X + BIRD_RADIUS > pipes[i].x
          /\ BIRD_X - BIRD_RADIUS < pipes[i].x + PIPE_WIDTH)

C19_ScoreOnlyWhenCleared == C19_NoHitOnScored /\ C19_ScoredIsBehind

\* ---- C20
\* C20: if from some point on no flap arrives while ticks keep arriving,
\* every game in play eventually ends, and an ended game leaves Over only
\* by a flap.
C20_EndsWhenLeftAlone ==
  <>[][~Flap]_vars => ((gameState = Game) ~> (gameState = Over))

C20_Step == (gameState = Over /\ gameState' /= Over) => IsFlap

C20_Terminates == C20_EndsWhenLeftAlone /\ [][C20_Step]_vars

\* A game that ended on the floor after at least 58 ticks without a flap.
C20_Witness ==
  /\ gameState = Over
  /\ bird.y = FloorY
  /\ bird.vy >= 40

====
